---- MODULE Spec2Model ----
(***************************************************************************)
(* The parse-expression interpreter of lexemic (src/parser): the recursive *)
(* evaluator ParseExpr::parse / AtomicExpr::parse run as an explicit stack *)
(* machine, one frame per active call, together with the diagnostics of    *)
(* src/parser/error.rs.  A panic (todo!(), unwrap on None) ends the run in *)
(* status "abort".                                                         *)
(***************************************************************************)
EXTENDS Integers, Sequences, FiniteSets, TLC

\* ------------------------------------------------------------------ bounds
\* longest input of the general family
MaxLen == 2
\* how many iterations beyond the input length a repetition is followed
MaxStall == 2

\* ------------------------------------------------------------- characters
Lower == {"a", "b", "c", "d", "e", "f", "g", "h", "i", "j", "k", "l", "m",
          "n", "o", "p", "q", "r", "s", "t", "u", "v", "w", "x", "y", "z"}
Upper == {"A", "B", "C", "D", "E", "F", "G", "H", "I", "J", "K", "L", "M",
          "N", "O", "P", "Q", "R", "S", "T", "U", "V", "W", "X", "Y", "Z"}
AlphaClass == Lower \cup Upper \cup {"_"}
DigitClass == {"0", "1", "2", "3", "4", "5", "6", "7", "8", "9"}
SpaceClass == {" ", "\n", "\t"}

\* the bytes of a terminal's text
Chars(t) ==
  IF t = "ab" THEN <<"a", "b">>
  ELSE IF t = "" THEN <<>>
  ELSE <<t>>

\* every terminal / pattern text of the grammars below, in byte order (the
\* iteration order of BTreeSet<&str>)
TermOrder == <<"(", ")", ":", "[0-9]", "[a-zA-Z_]", "\\s*", "a", "ab", "b">>

\* the elements of a BTreeSet in iteration order
BTreeIter(S) == SelectSeq(TermOrder, LAMBDA t : t \in S)

\* source[from..] as a sequence (from is a 0-based byte index)
Tail0(source, from) == SubSeq(source, from + 1, Len(source))

\* source[from..to]
Slice(source, from, to) == SubSeq(source, from + 1, to)

\* str::starts_with
starts_with(s, t) ==
  /\ Len(t) <= Len(s)
  /\ SubSeq(s, 1, Len(t)) = t

\* str::find("\n"): 0-based index of the first newline, -1 for None
find_newline(s) ==
  IF \E p \in 1..Len(s) : s[p] = "\n"
  THEN (CHOOSE p \in 1..Len(s) : s[p] = "\n" /\ \A q \in 1..(p - 1) : s[q] # "\n") - 1
  ELSE -1

\* str::rfind("\n"): 0-based index of the last newline, -1 for None
rfind_newline(s) ==
  IF \E p \in 1..Len(s) : s[p] = "\n"
  THEN (CHOOSE p \in 1..Len(s) : s[p] = "\n" /\ \A q \in (p + 1)..Len(s) : s[q] # "\n") - 1
  ELSE -1

\* the character class of a one-character pattern
ClassOf(re) ==
  IF re = "[a-zA-Z_]" THEN AlphaClass
  ELSE IF re = "[0-9]" THEN DigitClass
  ELSE {}

\* number of leading whitespace characters
RECURSIVE LeadingSpace(_)
LeadingSpace(s) ==
  IF s = <<>> THEN 0
  ELSE IF s[1] \in SpaceClass THEN 1 + LeadingSpace(Tail(s))
  ELSE 0

\* Regex::find: the leftmost match as [found, start, end]
RegexFind(re, s) ==
  IF re = "\\s*"
  THEN [found |-> TRUE, start |-> 0, end |-> LeadingSpace(s)]
  ELSE IF \E p \in 1..Len(s) : s[p] \in ClassOf(re)
  THEN LET p == CHOOSE q \in 1..Len(s) :
                  /\ s[q] \in ClassOf(re)
                  /\ \A k \in 1..(q - 1) : s[k] \notin ClassOf(re)
       IN [found |-> TRUE, start |-> p - 1, end |-> p]
  ELSE [found |-> FALSE, start |-> 0, end |-> 0]

\* ------------------------------------------------------------ diagnostics
NoErr == [kind |-> "None", name |-> "", line |-> <<>>, col |-> 0, idx |-> 0,
          msg |-> <<>>, terminals |-> {}, rules |-> <<>>]

UnknownNonTerminal(name) == [NoErr EXCEPT !.kind = "UnknownNonTerminal", !.name = name]

BadMatchError(line, col, idx, msg, terminals, rules) ==
  [kind |-> "BadMatchError", name |-> "", line |-> line, col |-> col, idx |-> idx,
   msg |-> msg, terminals |-> terminals, rules |-> rules]

\* ParseError::new_bad_match, the (line, col) computation: ok = FALSE is todo!()
LineCol(source, idx) ==
  LET prev == rfind_newline(Slice(source, 0, idx))
      next == find_newline(Tail0(source, idx))
  IN IF prev # -1 /\ next # -1
     THEN IF prev + 1 < idx
          THEN [ok |-> TRUE, line |-> Slice(source, prev + 1, idx + next), col |-> idx - prev - 1]
          ELSE [ok |-> FALSE, line |-> <<>>, col |-> 0]
     ELSE IF prev = -1 /\ next # -1
     THEN [ok |-> FALSE, line |-> <<>>, col |-> 0]
     ELSE IF prev # -1 /\ next = -1
     THEN IF prev + 1 < idx
          THEN [ok |-> TRUE, line |-> Tail0(source, prev + 1), col |-> idx - prev - 1]
          ELSE [ok |-> FALSE, line |-> <<>>, col |-> 0]
     ELSE [ok |-> TRUE, line |-> source, col |-> idx]

\* ParseError::new_bad_match: [ok, err]
new_bad_match(source, idx, msg, terminals, rules) ==
  LET lc == LineCol(source, idx)
  IN [ok |-> lc.ok,
      err |-> BadMatchError(lc.line, lc.col, idx, msg, terminals, rules)]

IsBad(e) == e.kind = "BadMatchError"

\* MaxIdx taking the least index
MaxIdx_Least(errors) ==
  CHOOSE m \in {errors[k].idx : k \in 1..Len(errors)} :
    \A k \in 1..Len(errors) : m <= errors[k].idx

MaxIdx(errors) ==
  CHOOSE m \in {errors[k].idx : k \in 1..Len(errors)} :
    \A k \in 1..Len(errors) : errors[k].idx <= m

\* the first error at max (errors.iter().find)
FirstAt(errors, max) ==
  errors[CHOOSE k \in 1..Len(errors) :
           errors[k].idx = max /\ \A j \in 1..(k - 1) : errors[j].idx # max]

\* FlattenAt taking only the first diagnostic at max
FlattenAt_FirstOnly(errors, max) == BTreeIter(FirstAt(errors, max).terminals)

\* FlattenAt keeping only the sets of diagnostics beyond max
FlattenAt_Beyond(errors, max) ==
  IF \E k \in 1..Len(errors) : errors[k].idx > max
  THEN BTreeIter(errors[CHOOSE k \in 1..Len(errors) : errors[k].idx > max].terminals)
  ELSE <<>>

\* the Vec `terminals` of collect_furthest: the sets at max, flattened in order
RECURSIVE FlattenAt(_, _)
FlattenAt(errors, max) ==
  IF errors = <<>> THEN <<>>
  ELSE (IF Head(errors).idx = max THEN BTreeIter(Head(errors).terminals) ELSE <<>>)
       \o FlattenAt(Tail(errors), max)

SeqRange(s) == {s[k] : k \in 1..Len(s)}

\* ParseError::collect_furthest: res is "None" (Ok(None)), "Some" (Ok(Some(err)))
\* or "Err" (Fallible::Err(err))
collect_furthest(errors) ==
  IF errors = <<>> THEN [res |-> "None", err |-> NoErr]
  ELSE IF \E k \in 1..Len(errors) : ~IsBad(errors[k])
  THEN [res |-> "Err",
        err |-> errors[CHOOSE k \in 1..Len(errors) :
                         ~IsBad(errors[k]) /\ \A j \in 1..(k - 1) : IsBad(errors[j])]]
  ELSE LET max == MaxIdx(errors)
           terminals == FlattenAt(errors, max)
           first == FirstAt(errors, max)
           msg == IF Len(terminals) = 1
                  THEN <<"Expected", terminals[1], "here.">>
                  ELSE <<"Expected one of">> \o terminals
       IN IF Len(terminals) = 0 THEN [res |-> "None", err |-> NoErr]
          ELSE [res |-> "Some",
                err |-> BadMatchError(first.line, first.col, first.idx, msg,
                                      SeqRange(terminals), first.rules)]

\* ------------------------------------------------------------ expressions
Expr(t, s, es) == [t |-> t, s |-> s, es |-> es]
Terminal(s) == Expr("Terminal", s, <<>>)
Regex(s) == Expr("Regex", s, <<>>)
NonTerminal(s) == Expr("NonTerminal", s, <<>>)
EndOfFile == Expr("EndOfFile", "", <<>>)
Sequence(es) == Expr("Sequence", "", es)
Choice(es) == Expr("Choice", "", es)
ZeroOrMore(e) == Expr("ZeroOrMore", "", <<e>>)
OneOrMore(e) == Expr("OneOrMore", "", <<e>>)
Optional(e) == Expr("Optional", "", <<e>>)

\* ------------------------------------------------------------- parse tree
Grouping(kind, text, kids) == [kind |-> kind, text |-> text, kids |-> kids]
GTerminal(text) == Grouping("Terminal", text, <<>>)
GSequence(ts) == Grouping("Sequence", <<>>, ts)
GOptional(inner) == Grouping("Optional", <<>>, inner)
GOut(node) == Grouping("Out", <<>>, <<node>>)
ParseOut(rule, out) == [rule |-> rule, out |-> out]
NoNode == ParseOut("", Grouping("None", <<>>, <<>>))

\* ---------------------------------------------------------------- Fallible
FOk(node) == [kind |-> "Ok", node |-> node, err |-> NoErr]
FRecovered(node, err) == [kind |-> "Recovered", node |-> node, err |-> err]
FErr(err) == [kind |-> "Err", node |-> NoNode, err |-> err]
FNone == [kind |-> "None", node |-> NoNode, err |-> NoErr]

\* Fallible::into_result
into_result(f) ==
  IF f.kind \in {"Ok", "Recovered"}
  THEN [kind |-> "Ok", node |-> f.node, err |-> NoErr]
  ELSE [kind |-> "Err", node |-> NoNode, err |-> f.err]

\* ---------------------------------------------------------------- grammars
\* the implicit whitespace atom of atomic_into_parse_expr
WithWs(e) == Sequence(<<Regex("\\s*"), e>>)

\* the example grammar of main, lowered
ExampleRules ==
  [prog |-> [expr |-> Sequence(<<WithWs(NonTerminal("param_list")), WithWs(EndOfFile)>>),
             group |-> FALSE],
   param |-> [expr |-> Sequence(<<WithWs(NonTerminal("type")),
                                  Sequence(<<WithWs(Terminal(":")),
                                             WithWs(NonTerminal("ident"))>>)>>),
              group |-> FALSE],
   param_list |->
     [expr |-> Choice(<<
        Sequence(<<WithWs(Terminal("(")),
                   Sequence(<<OneOrMore(WithWs(NonTerminal("param"))),
                              WithWs(Terminal(")"))>>)>>),
        Choice(<<
          Sequence(<<WithWs(Terminal("(")),
                     Sequence(<<OneOrMore(WithWs(NonTerminal("type"))),
                                WithWs(Terminal(")"))>>)>>),
          Sequence(<<WithWs(Terminal("(")), WithWs(Terminal(")"))>>)>>)>>),
      group |-> FALSE],
   type |-> [expr |-> WithWs(NonTerminal("ident")), group |-> FALSE],
   ident |-> [expr |-> Sequence(<<WithWs(NonTerminal("ALPHA")),
                                  ZeroOrMore(Choice(<<NonTerminal("ALPHA"),
                                                      NonTerminal("DIGIT")>>))>>),
              group |-> TRUE],
   ALPHA |-> [expr |-> Regex("[a-zA-Z_]"), group |-> FALSE],
   DIGIT |-> [expr |-> Regex("[0-9]"), group |-> FALSE]]

ExampleParser == [rules |-> ExampleRules, start |-> "prog"]

\* "(u64: foo bool   :    bar    bat      )"
ExampleSource ==
  <<"(", "u", "6", "4", ":", " ", "f", "o", "o", " ", "b", "o", "o", "l",
    " ", " ", " ", ":", " ", " ", " ", " ", "b", "a", "r", " ", " ", " ", " ",
    "b", "a", "t", " ", " ", " ", " ", " ", " ", ")">>

\* the general family: a start rule s over small expressions and a second rule r
Atoms == {Terminal("a"), Terminal("b"), NonTerminal("y"), NonTerminal("r"), EndOfFile}

Unary(S) == {ZeroOrMore(e) : e \in S} \cup {OneOrMore(e) : e \in S}
              \cup {Optional(e) : e \in S}

Binary(S, T) == {Sequence(<<e, f>>) : e \in S, f \in T}
                  \cup {Choice(<<e, f>>) : e \in S, f \in T}

Depth1 == Atoms \cup Unary(Atoms) \cup Binary(Atoms, Atoms)

StartExprs == Depth1 \cup Unary(Depth1) \cup Binary(Depth1 \ Atoms, {Terminal("a")})

SecondRules ==
  {[expr |-> Sequence(<<Terminal("a"),
                        Optional(Sequence(<<Terminal("b"), Terminal("a")>>))>>),
    group |-> FALSE],
   [expr |-> Choice(<<Terminal("ab"), Terminal("b")>>), group |-> TRUE],
   [expr |-> Sequence(<<Regex("\\s*"), ZeroOrMore(Terminal("a"))>>), group |-> TRUE],
   [expr |-> OneOrMore(Terminal("a")), group |-> TRUE],
   [expr |-> Regex("\\s*"), group |-> FALSE]}

\* does e refer to the rule name
RECURSIVE Mentions(_, _)
Mentions(e, name) ==
  \/ e.t = "NonTerminal" /\ e.s = name
  \/ \E k \in 1..Len(e.es) : Mentions(e.es[k], name)

FirstSecondRule ==
  CHOOSE r \in SecondRules : r.expr.t = "Sequence" /\ ~r.group

FamilyParsers ==
  {[rules |-> [s |-> [expr |-> e, group |-> FALSE], r |-> r], start |-> "s"] :
     e \in {x \in StartExprs : Mentions(x, "r")}, r \in SecondRules}
  \cup
  {[rules |-> [s |-> [expr |-> e, group |-> FALSE], r |-> FirstSecondRule], start |-> "s"] :
     e \in {x \in StartExprs : ~Mentions(x, "r")}}

Alphabet == {"a", "b", "c", "\n"}

RECURSIVE Strings(_)
Strings(n) ==
  IF n = 0 THEN {<<>>}
  ELSE Strings(n - 1) \cup {Append(s, c) : s \in Strings(n - 1), c \in Alphabet}

Cases ==
  {[parser |-> p, source |-> s] : p \in FamilyParsers, s \in Strings(MaxLen)}
    \cup {[parser |-> ExampleParser, source |-> ExampleSource]}

\* ------------------------------------------------------------------- state
VARIABLES
  parser,    \* Parser { rules, start }
  source,    \* the input
  idx,       \* the cursor (*idx)
  rules,     \* the rule stack (rules: &mut Vec<&str>)
  stack,     \* the active calls of ParseExpr::parse / AtomicExpr::parse
  ret,       \* the value the callee just returned, with the call it ends
  status,    \* "new", "run", "done" or "abort" (a panic)
  result,    \* the Result of Parser::parse
  produced,  \* history: <<idx, terminal>> of every BadMatch built by a matcher
  unknown    \* history: the names looked up and not found, in order

vars == <<parser, source, idx, rules, stack, ret, status, result, produced, unknown>>

NoRet == [val |-> FNone, e |-> EndOfFile, group |-> FALSE, entry |-> 0, rules0 |-> <<>>]

NoResult == [kind |-> "None", node |-> NoNode, err |-> NoErr]

Frame(e, group) ==
  [e |-> e, group |-> group, pc |-> "new", start |-> idx, i |-> 1,
   outs |-> <<>>, errors |-> <<>>, rules0 |-> rules, dropped |-> NoErr]

Init ==
  /\ \E c \in Cases : parser = c.parser /\ source = c.source
  /\ idx = 0
  /\ rules = <<>>
  /\ stack = <<>>
  /\ ret = NoRet
  /\ status = "new"
  /\ result = NoResult
  /\ produced = {}
  /\ unknown = <<>>

Top == stack[Len(stack)]
Pop == SubSeq(stack, 1, Len(stack) - 1)
Pending == ret.val.kind # "None"
Running == status = "run" /\ stack # <<>>
Is(t) == Running /\ Top.e.t = t
LastRule == rules[Len(rules)]

\* Ret where a failing call puts the cursor back to the start of the input
Ret_RewindToZero(val, nidx) ==
  /\ stack' = Pop
  /\ ret' = [val |-> val, e |-> Top.e, group |-> Top.group, entry |-> Top.start,
             rules0 |-> Top.rules0]
  /\ idx' = IF val.kind = "Err" THEN 0 ELSE nidx
  /\ UNCHANGED <<parser, source, status, result>>

\* the call on top returns val, leaving the cursor at nidx
Ret(val, nidx) ==
  /\ stack' = Pop
  /\ ret' = [val |-> val, e |-> Top.e, group |-> Top.group, entry |-> Top.start,
             rules0 |-> Top.rules0]
  /\ idx' = nidx
  /\ UNCHANGED <<parser, source, status, result>>

\* the call on top, updated to top, calls sub
Call(top, sub, group) ==
  /\ stack' = Append(Append(Pop, top), Frame(sub, group))
  /\ ret' = NoRet
  /\ UNCHANGED <<parser, source, idx, rules, status, result, produced, unknown>>

\* the call on top goes on as top, having consumed the returned value
Continue(top) ==
  /\ stack' = Append(Pop, top)
  /\ ret' = NoRet
  /\ UNCHANGED <<parser, source, idx, rules, status, result, produced, unknown>>

\* a panic
Panic ==
  /\ status' = "abort"
  /\ UNCHANGED <<parser, source, idx, rules, stack, ret, result, produced, unknown>>

\* Parser::parse, up to the call of the start rule's expression; the rule stack
\* handed to the expression holds the start rule (self.start)
parse ==
  /\ status = "new"
  /\ IF parser.start \in DOMAIN parser.rules
     THEN /\ status' = "run"
          /\ idx' = 0
          /\ rules' = <<parser.start>>
          /\ stack' = <<[Frame(parser.rules[parser.start].expr,
                               parser.rules[parser.start].group)
                         EXCEPT !.start = 0, !.rules0 = <<parser.start>>]>>
          /\ UNCHANGED <<parser, source, ret, result, produced, unknown>>
     ELSE Panic

\* Parser::parse, the into_result of the outcome
Finish ==
  /\ status = "run"
  /\ stack = <<>>
  /\ Pending
  /\ status' = "done"
  /\ result' = into_result(ret.val)
  /\ UNCHANGED <<parser, source, idx, rules, stack, ret, produced, unknown>>

\* AtomicExpr::parse, Terminal
AtomicTerminal ==
  /\ Is("Terminal")
  /\ LET term == Chars(Top.e.s)
     IN IF starts_with(Tail0(source, idx), term)
        THEN IF rules = <<>> THEN Panic
             ELSE /\ Ret(FOk(ParseOut(LastRule,
                                      GTerminal(Slice(source, idx, idx + Len(term))))),
                         idx + Len(term))
                  /\ UNCHANGED <<rules, produced, unknown>>
        ELSE LET bm == new_bad_match(source, idx, <<"Expected", Top.e.s, "here.">>,
                                     {Top.e.s}, rules)
             IN IF bm.ok
                THEN /\ Ret(FErr(bm.err), idx)
                     /\ produced' = produced \cup {<<idx, Top.e.s>>}
                     /\ UNCHANGED <<rules, unknown>>
                ELSE Panic

\* AtomicExpr::parse, Regex
AtomicRegex ==
  /\ Is("Regex")
  /\ LET m == RegexFind(Top.e.s, Tail0(source, idx))
     IN IF m.found /\ m.start = 0
        THEN IF rules = <<>> THEN Panic
             ELSE /\ Ret(FOk(ParseOut(LastRule,
                                      GTerminal(Slice(source, idx, idx + m.end)))),
                         idx + m.end)
                  /\ UNCHANGED <<rules, produced, unknown>>
        ELSE LET bm == new_bad_match(source, idx, <<"Failed to match", Top.e.s>>,
                                     {Top.e.s}, rules)
             IN IF bm.ok
                THEN /\ Ret(FErr(bm.err), idx)
                     /\ produced' = produced \cup {<<idx, Top.e.s>>}
                     /\ UNCHANGED <<rules, unknown>>
                ELSE Panic

\* AtomicExpr::parse, EndOfFile
AtomicEndOfFile ==
  /\ Is("EndOfFile")
  /\ IF idx + 1 >= Len(source)
     THEN IF rules = <<>> THEN Panic
          ELSE /\ Ret(FOk(ParseOut(LastRule, GTerminal(<<"E", "O", "F">>))), idx)
               /\ UNCHANGED <<rules, produced, unknown>>
     ELSE Panic

\* AtomicExpr::parse, NonTerminal: the lookup, the push and the call
NonTerminalEnter ==
  /\ Is("NonTerminal")
  /\ ~Pending
  /\ IF Top.e.s \in DOMAIN parser.rules
     THEN /\ rules' = Append(rules, Top.e.s)
          /\ stack' = Append(stack,
                             [Frame(parser.rules[Top.e.s].expr, parser.rules[Top.e.s].group)
                              EXCEPT !.rules0 = Append(rules, Top.e.s)])
          /\ UNCHANGED <<parser, source, idx, ret, status, result, produced, unknown>>
     ELSE /\ Ret(FErr(UnknownNonTerminal(Top.e.s)), idx)
          /\ unknown' = Append(unknown, Top.e.s)
          /\ UNCHANGED <<rules, produced>>

\* NonTerminalExit leaving the rule's name on the rule stack
NonTerminalExit_NoPop ==
  /\ Is("NonTerminal")
  /\ Pending
  /\ Ret(ret.val, idx)
  /\ UNCHANGED <<rules, produced, unknown>>

\* AtomicExpr::parse, NonTerminal: the pop and the return of the rule's result
NonTerminalExit ==
  /\ Is("NonTerminal")
  /\ Pending
  /\ Ret(ret.val, idx)
  /\ rules' = SubSeq(rules, 1, Len(rules) - 1)
  /\ UNCHANGED <<produced, unknown>>

\* Collapse without the capture branch
Collapse_NoCapture(f, ts) == ParseOut(LastRule, GSequence(ts))

\* the node a Sequence or a repetition builds: collapsed when the rule captures
Collapse(f, ts) ==
  IF f.group
  THEN ParseOut(LastRule, GTerminal(Slice(source, f.start, idx)))
  ELSE ParseOut(LastRule, GSequence(ts))

\* ParseExpr::parse, Choice: the call of the next alternative
ChoiceCall ==
  /\ Is("Choice")
  /\ ~Pending
  /\ Top.i <= Len(Top.e.es)
  /\ Call(Top, Top.e.es[Top.i], Top.group)

\* ParseExpr::parse, Choice: the match on an alternative's outcome
ChoiceResume ==
  /\ Is("Choice")
  /\ Pending
  /\ IF ret.val.kind = "Ok"
     THEN IF rules = <<>> THEN Panic
          ELSE /\ Ret(FOk(ParseOut(LastRule, GOut(ret.val.node))), idx)
               /\ UNCHANGED <<rules, produced, unknown>>
     ELSE IF ret.val.kind = "Recovered"
     THEN LET c == collect_furthest(Append(Top.errors, ret.val.err))
          IN IF rules = <<>> \/ c.res = "None" THEN Panic
             ELSE /\ Ret(IF c.res = "Err" THEN FErr(c.err)
                         ELSE FRecovered(ParseOut(LastRule, GOut(ret.val.node)), c.err),
                         idx)
                  /\ UNCHANGED <<rules, produced, unknown>>
     ELSE Continue([Top EXCEPT !.errors = Append(@, ret.val.err), !.i = @ + 1])

\* ParseExpr::parse, Choice: every alternative returned Err
ChoiceExhausted ==
  /\ Is("Choice")
  /\ ~Pending
  /\ Top.i > Len(Top.e.es)
  /\ LET c == collect_furthest(Top.errors)
     IN IF c.res = "None" THEN Panic
        ELSE /\ Ret(FErr(c.err), idx)
             /\ UNCHANGED <<rules, produced, unknown>>

IsRepeat == Is("OneOrMore") \/ Is("ZeroOrMore")

\* ParseExpr::parse, OneOrMore / ZeroOrMore: the call of the body
RepeatCall ==
  /\ IsRepeat
  /\ ~Pending
  /\ Call([Top EXCEPT !.pc = IF Top.pc = "new" /\ Top.e.t = "OneOrMore"
                             THEN "first" ELSE "loop"],
          Top.e.es[1], Top.group)

\* ParseExpr::parse, OneOrMore: vec![e.parse(..)?], the mandatory match
\* (`?` keeps the node of a Recovered and discards its diagnostic, Fallible::branch;
\* the frame's history field `dropped` remembers what was discarded)
RepeatFirst ==
  /\ IsRepeat
  /\ Pending
  /\ Top.pc = "first"
  /\ IF ret.val.kind = "Err"
     THEN /\ Ret(FErr(ret.val.err), idx)
          /\ UNCHANGED <<rules, produced, unknown>>
     ELSE Continue([Top EXCEPT !.outs = <<ret.val.node>>, !.pc = "loop",
                               !.dropped = ret.val.err])

\* ParseExpr::parse, OneOrMore / ZeroOrMore: one turn of the loop, and on Err the
\* break and the construction of the result
RepeatLoop ==
  /\ IsRepeat
  /\ Pending
  /\ Top.pc = "loop"
  /\ IF ret.val.kind = "Ok"
     THEN /\ Len(Top.outs) < Len(source) + MaxStall
          /\ Continue([Top EXCEPT !.outs = Append(@, ret.val.node)])
     ELSE IF ret.val.kind = "Recovered"
     THEN /\ Len(Top.outs) < Len(source) + MaxStall
          /\ Continue([Top EXCEPT !.outs = Append(@, ret.val.node),
                                  !.errors = Append(@, ret.val.err)])
     ELSE LET c == collect_furthest(Append(Top.errors, ret.val.err))
          IN IF c.res = "Err"
             THEN /\ Ret(FErr(c.err), idx)
                  /\ UNCHANGED <<rules, produced, unknown>>
             ELSE IF c.res = "None" \/ rules = <<>> THEN Panic
             ELSE /\ Ret(FRecovered(Collapse(Top, Top.outs), c.err), idx)
                  /\ UNCHANGED <<rules, produced, unknown>>

\* ParseExpr::parse, Optional: the call of the body
OptionalCall ==
  /\ Is("Optional")
  /\ ~Pending
  /\ Call(Top, Top.e.es[1], Top.group)

\* ParseExpr::parse, Optional: the match on the body's outcome
OptionalResume ==
  /\ Is("Optional")
  /\ Pending
  /\ IF rules = <<>> THEN Panic
     ELSE /\ Ret(IF ret.val.kind = "Ok"
                 THEN FOk(ParseOut(LastRule, GOptional(<<ret.val.node.out>>)))
                 ELSE IF ret.val.kind = "Recovered"
                 THEN FRecovered(ParseOut(LastRule, GOptional(<<ret.val.node.out>>)),
                                 ret.val.err)
                 ELSE FRecovered(ParseOut(LastRule, GOptional(<<>>)), ret.val.err),
                 idx)
          /\ UNCHANGED <<rules, produced, unknown>>

\* ParseExpr::parse, Sequence: the call of the next element
SequenceCall ==
  /\ Is("Sequence")
  /\ ~Pending
  /\ Top.i <= Len(Top.e.es)
  /\ Call(Top, Top.e.es[Top.i], Top.group)

\* ParseExpr::parse, Sequence: the match on an element's outcome
SequenceResume ==
  /\ Is("Sequence")
  /\ Pending
  /\ IF ret.val.kind = "Ok"
     THEN Continue([Top EXCEPT !.outs = Append(@, ret.val.node), !.i = @ + 1])
     ELSE IF ret.val.kind = "Recovered"
     THEN Continue([Top EXCEPT !.outs = Append(@, ret.val.node),
                               !.errors = Append(@, ret.val.err), !.i = @ + 1])
     ELSE LET c == collect_furthest(Append(Top.errors, ret.val.err))
          IN IF c.res = "None" THEN Panic
             ELSE /\ Ret(FErr(c.err), Top.start)
                  /\ UNCHANGED <<rules, produced, unknown>>

\* ParseExpr::parse, Sequence: every element matched
SequenceEnd ==
  /\ Is("Sequence")
  /\ ~Pending
  /\ Top.i > Len(Top.e.es)
  /\ LET c == collect_furthest(Top.errors)
     IN IF c.res = "Err"
        THEN /\ Ret(FErr(c.err), idx)
             /\ UNCHANGED <<rules, produced, unknown>>
        ELSE IF rules = <<>> THEN Panic
        ELSE /\ Ret(IF c.res = "Some" THEN FRecovered(Collapse(Top, Top.outs), c.err)
                    ELSE FOk(Collapse(Top, Top.outs)),
                    idx)
             /\ UNCHANGED <<rules, produced, unknown>>

Next ==
  \/ parse
  \/ Finish
  \/ AtomicTerminal
  \/ AtomicRegex
  \/ AtomicEndOfFile
  \/ NonTerminalEnter
  \/ NonTerminalExit
  \/ ChoiceCall
  \/ ChoiceResume
  \/ ChoiceExhausted
  \/ RepeatCall
  \/ RepeatFirst
  \/ RepeatLoop
  \/ OptionalCall
  \/ OptionalResume
  \/ SequenceCall
  \/ SequenceResume
  \/ SequenceEnd

Spec == Init /\ [][Next]_vars

\* ------------------------------------------------------------------ claims
Returned(t) == status = "run" /\ Pending /\ ret.e.t = t
Succeeded == ret.val.kind \in {"Ok", "Recovered"}
Aborted(t) == status = "abort" /\ stack # <<>> /\ Top.e.t = t

\* C1: once a NonTerminal lookup has missed, parse returns
\* Err(UnknownNonTerminal(name)) for the first such name, whatever encloses the
\* reference.
C1_UnknownSurfaced ==
  (status = "done" /\ unknown # <<>>)
    => (result.kind = "Err" /\ result.err = UnknownNonTerminal(unknown[1]))

\* C2: whenever the evaluation of an expression returns Err, the cursor equals
\* the value it had when that evaluation was entered, for BadMatch and for
\* UnknownNonTerminal alike.
C2_ErrKeepsCursor ==
  (status = "run" /\ Pending /\ ret.val.kind = "Err") => idx = ret.entry

\* C3: in ZeroOrMore / OneOrMore a success of the body that did not advance the
\* cursor ends the loop (the repetition returns), so the repetition terminates.
C3_NonAdvancingEndsLoop ==
  [][(IsRepeat /\ Pending /\ Succeeded /\ idx = ret.entry)
       => Len(stack') < Len(stack)]_vars

\* C4: furthest-error law: when parse returns Err(BadMatch d), no BadMatch built
\* during the parse has a byte index beyond d.byte_index, and d.expected holds
\* every terminal that was expected at exactly d.byte_index.
C4_FurthestError ==
  (status = "done" /\ result.kind = "Err" /\ IsBad(result.err))
    => \A p \in produced :
         /\ p[1] <= result.err.idx
         /\ p[1] = result.err.idx => p[2] \in result.err.terminals

\* C5: EndOfInput at cursor c returns Ok (Terminal "EOF") iff c = len(input); for
\* c < len(input) it returns Err with the cursor unchanged (it does not abort).
C5_EndOfInputStrict ==
  /\ ~Aborted("EndOfFile")
  /\ Returned("EndOfFile")
       => /\ idx = ret.entry
          /\ IF ret.entry = Len(source)
             THEN /\ ret.val.kind = "Ok"
                  /\ ret.val.node.out = GTerminal(<<"E", "O", "F">>)
             ELSE ret.val.kind = "Err"

\* C6: Optional(sub) never returns Err: Ok(Optional(Some)) when sub returns Ok,
\* Recovered(Optional(Some), d) when sub returns Recovered(_, d), and
\* Recovered(Optional(None), d) with the cursor where it was at the entry of the
\* Optional when sub returns Err(d).
C6_OptionalTotal ==
  [][(Is("Optional") /\ Pending /\ status' = "run")
       => /\ ret'.e.t = "Optional"
          /\ ret'.val.kind = (IF ret.val.kind = "Ok" THEN "Ok" ELSE "Recovered")
          /\ ret.val.kind # "Ok" => ret'.val.err = ret.val.err
          /\ ret'.val.node.out = (IF ret.val.kind = "Err" THEN GOptional(<<>>)
                                  ELSE GOptional(<<ret.val.node.out>>))
          /\ ret.val.kind = "Err" => idx' = Top.start]_vars

CaptureRule(name) == name \in DOMAIN parser.rules /\ parser.rules[name].group

\* C7 as stated: a capture rule that succeeds through a NonTerminal reference
\* returns one Terminal leaf labelled with the rule's name, spanning
\* input[entry_cursor, exit_cursor), whatever the shape of its expression.
C7_CaptureAnyShape ==
  (Returned("NonTerminal") /\ Succeeded /\ CaptureRule(ret.e.s))
    => ret.val.node = ParseOut(ret.e.s, GTerminal(Slice(source, ret.entry, idx)))

\* C7 amended: the same, for a capture rule whose expression is a Sequence, a
\* ZeroOrMore or a OneOrMore.
C7_CaptureSequenceOrRepetition ==
  (Returned("NonTerminal") /\ Succeeded /\ CaptureRule(ret.e.s)
     /\ parser.rules[ret.e.s].expr.t \in {"Sequence", "ZeroOrMore", "OneOrMore"})
    => ret.val.node = ParseOut(ret.e.s, GTerminal(Slice(source, ret.entry, idx)))

\* a capture rule of Sequence or repetition shape returned a non-empty leaf
C7_Witness ==
  /\ Returned("NonTerminal") /\ Succeeded /\ CaptureRule(ret.e.s)
  /\ parser.rules[ret.e.s].expr.t \in {"Sequence", "ZeroOrMore", "OneOrMore"}
  /\ idx > ret.entry
  /\ ret.val.node.out.kind = "Terminal"

\* C8: the Literal matcher returns Ok or Err and never aborts: Ok exactly when
\* the input from c begins with t, the cursor then being c + len(t) and the node a
\* Terminal over input[c, c + len(t)); otherwise Err(BadMatch) with byte_index c,
\* expected {t}, the current rule stack, and the cursor left at c.
C8_LiteralTotal ==
  /\ ~Aborted("Terminal")
  /\ Returned("Terminal")
       => LET t == Chars(ret.e.s)
              c == ret.entry
          IN IF starts_with(Tail0(source, c), t)
             THEN /\ ret.val.kind = "Ok"
                  /\ idx = c + Len(t)
                  /\ ret.val.node.out = GTerminal(Slice(source, c, c + Len(t)))
             ELSE /\ ret.val.kind = "Err"
                  /\ IsBad(ret.val.err)
                  /\ ret.val.err.idx = c
                  /\ ret.val.err.terminals = {ret.e.s}
                  /\ ret.val.err.rules = rules
                  /\ idx = c

AllBad(errors) == \A k \in 1..Len(errors) : IsBad(errors[k])

\* C9: when every alternative of a Choice returned Err(BadMatch), the Choice
\* returns Err(BadMatch m): m.byte_index is the greatest byte index of the
\* alternatives' diagnostics, m.expected the union of the expected sets of those
\* at that index, and line_slice, column and rule_stack are those of the first
\* diagnostic at that index.
C9_ChoiceMerge ==
  [][(Is("Choice") /\ ~Pending /\ Top.i > Len(Top.e.es) /\ Top.errors # <<>>
        /\ AllBad(Top.errors))
       => LET ds == Top.errors
              at == {k \in 1..Len(ds) : \A j \in 1..Len(ds) : ds[j].idx <= ds[k].idx}
              k1 == CHOOSE k \in at : \A j \in at : k <= j
              m == ret'.val.err
          IN /\ status' = "run"
             /\ ret'.e = Top.e
             /\ ret'.val.kind = "Err"
             /\ IsBad(m)
             /\ m.idx = ds[k1].idx
             /\ m.terminals = UNION {ds[k].terminals : k \in at}
             /\ m.line = ds[k1].line
             /\ m.col = ds[k1].col
             /\ m.rules = ds[k1].rules]_vars

\* the Choice of the literals "a" and "b" on the input "c" returned the merged
\* diagnostic: expected {"a", "b"} at column 0
C9_Witness ==
  /\ Returned("Choice")
  /\ ret.e = Choice(<<Terminal("a"), Terminal("b")>>)
  /\ source = <<"c">>
  /\ ret.val.kind = "Err"
  /\ ret.val.err.terminals = {"a", "b"}
  /\ ret.val.err.col = 0
  /\ ret.val.err.idx = 0

\* source.find("bat").unwrap() + "bat".len()
AfterBat ==
  (CHOOSE p \in 1..(Len(ExampleSource) - 2) :
     SubSeq(ExampleSource, p, p + 2) = <<"b", "a", "t">>) - 1 + 3

\* C10: on the example grammar and the input "(u64: foo bool   :    bar    bat
\* )" parse fails with a BadMatch that points at the byte immediately after
\* `bat`, expects {":"} and has a rule stack ending in `param`.
C10_ExampleDiagnostic ==
  (status = "done" /\ parser.start = "prog" /\ source = ExampleSource)
    => /\ result.kind = "Err"
       /\ IsBad(result.err)
       /\ result.err.idx = AfterBat
       /\ result.err.terminals = {":"}
       /\ result.err.rules # <<>>
       /\ result.err.rules[Len(result.err.rules)] = "param"

\* a diagnostic that collect_furthest built has just been returned
Merged ==
  /\ status = "run" /\ Pending /\ IsBad(ret.val.err)
  /\ \/ ret.e.t \in {"Sequence", "Choice"} /\ ret.val.kind \in {"Err", "Recovered"}
     \/ ret.e.t \in {"ZeroOrMore", "OneOrMore"} /\ ret.val.kind = "Recovered"

\* C11: the message of a merged diagnostic is chosen by the number of distinct
\* terminals expected at max_idx: "Expected `X` here." when there is exactly one,
\* also when several diagnostics at max_idx expect that same X; "Expected one
\* of ..." only for two or more, each listed once.
C11_MessageByCardinality ==
  Merged
    => LET d == ret.val.err
       IN IF Cardinality(d.terminals) = 1
          THEN \E x \in d.terminals : d.msg = <<"Expected", x, "here.">>
          ELSE /\ d.msg[1] = "Expected one of"
               /\ Len(d.msg) = 1 + Cardinality(d.terminals)
               /\ SeqRange(SubSeq(d.msg, 2, Len(d.msg))) = d.terminals

\* the line of src around byte i: from after the last newline before i up to the
\* first newline at or after i, or the end of src
LineAround(src, i) ==
  LET before == {p \in 1..i : src[p] = "\n"}
      after == {p \in (i + 1)..Len(src) : src[p] = "\n"}
      lo == IF before = {} THEN 0 ELSE CHOOSE p \in before : \A q \in before : q <= p
      hi == IF after = {} THEN Len(src)
            ELSE (CHOOSE p \in after : \A q \in after : p <= q) - 1
  IN SubSeq(src, lo + 1, hi)

\* C12: for every source and every byte index i in 0..len(source), building a
\* BadMatch at i completes, and its line_slice is the text between the newline
\* before i and the first newline at or after i (the whole source when it has no
\* newline, up to the end of input when no newline follows).
C12_LineSliceTotal ==
  /\ ~(Aborted("Terminal") \/ Aborted("Regex"))
  /\ ((Returned("Terminal") \/ Returned("Regex")) /\ ret.val.kind = "Err")
       => ret.val.err.line = LineAround(source, ret.val.err.idx)

\* a repetition receives the outcome of its body
RepeatStep == IsRepeat /\ Pending /\ status' = "run"

\* C13 as stated: a repetition never returns Ok; the Recovered it returns carries
\* the Err that ended the loop; ZeroOrMore whose first probe fails with a BadMatch
\* returns Recovered with no children and the cursor unchanged; OneOrMore returns
\* Err exactly when its first mandatory attempt returns Err.
C13_CarriesTerminatingErr ==
  [][RepeatStep
       => /\ Len(stack') < Len(stack) => ret'.val.kind # "Ok"
          /\ (Top.pc = "first" /\ ret.val.kind = "Err") => ret'.val.kind = "Err"
          /\ (Top.pc = "loop" /\ ret.val.kind = "Err")
               => /\ Top.e.t = "OneOrMore" => ret'.val.kind # "Err"
                  /\ ret'.val.kind = "Recovered"
                       => /\ ret'.val.err.kind = ret.val.err.kind
                          /\ ret'.val.err.idx = ret.val.err.idx
                          /\ ret'.val.err.terminals = ret.val.err.terminals
                  /\ (Top.e.t = "ZeroOrMore" /\ Top.outs = <<>> /\ IsBad(ret.val.err))
                       => /\ ret'.val.kind = "Recovered"
                          /\ ret'.val.node.out \in {GSequence(<<>>), GTerminal(<<>>)}
                          /\ idx' = Top.start]_vars

\* C13 amended: a repetition never returns Ok; the Recovered it returns carries
\* the furthest-merge of the diagnostics of the loop's Recovered iterations and
\* of the Err that ended the loop; ZeroOrMore whose first probe fails with a
\* BadMatch returns Recovered with an empty node and the cursor unchanged;
\* OneOrMore returns Err when its first mandatory attempt returns Err, and a
\* repetition returns Err(UnknownNonTerminal) when one of the loop's diagnostics
\* is an UnknownNonTerminal, and in no other case.
C13_CarriesMergedErr ==
  [][RepeatStep
       => LET all == Append(Top.errors, ret.val.err)
              at == {k \in 1..Len(all) : \A j \in 1..Len(all) : all[j].idx <= all[k].idx}
              m == ret'.val.err
          IN /\ Len(stack') < Len(stack) => ret'.val.kind # "Ok"
             /\ Succeeded => Len(stack') = Len(stack)
             /\ (Top.pc = "first" /\ ret.val.kind = "Err") => ret'.val = FErr(ret.val.err)
             /\ (Top.pc = "loop" /\ ret.val.kind = "Err")
                  => IF AllBad(all)
                     THEN /\ ret'.val.kind = "Recovered"
                          /\ IsBad(m)
                          /\ \A k \in at : m.idx = all[k].idx
                          /\ m.terminals = UNION {all[k].terminals : k \in at}
                          /\ (Top.outs = <<>> /\ Top.errors = <<>>)
                               => /\ ret'.val.node.out \in {GSequence(<<>>), GTerminal(<<>>)}
                                  /\ idx' = Top.start
                                  /\ m.idx = ret.val.err.idx
                                  /\ m.terminals = ret.val.err.terminals
                     ELSE /\ ret'.val.kind = "Err"
                          /\ ret'.val.err.kind = "UnknownNonTerminal"]_vars

\* a repetition returned Recovered with at least one child
C13_Witness ==
  /\ Returned("ZeroOrMore") \/ Returned("OneOrMore")
  /\ ret.val.kind = "Recovered"
  /\ IsBad(ret.val.err)
  /\ ret.val.node.out.kind = "Sequence"
  /\ Len(ret.val.node.out.kids) >= 1

\* C14: the cursor is always within 0..len(input); whenever an evaluation returns
\* Ok or Recovered the cursor is at or beyond its value at the entry of that
\* evaluation; the cursor decreases only by the rewind of a failing Sequence.
C14_CursorMonotone ==
  /\ [](/\ idx \in 0..Len(source)
        /\ (status = "run" /\ Pending /\ Succeeded) => idx >= ret.entry)
  /\ [][idx' < idx => (Is("Sequence") /\ Pending /\ ret.val.kind = "Err")]_vars

\* a Sequence that had advanced failed and put the cursor back
C14_Witness ==
  /\ Returned("Sequence")
  /\ ret.val.kind = "Err"
  /\ IsBad(ret.val.err)
  /\ ret.val.err.idx > idx
  /\ idx = ret.entry

\* C15: when the evaluation of an expression has returned, with any outcome, the
\* rule stack equals the rule stack at the entry of that evaluation; the rule stack
\* is not empty while the parse runs (so no node is built on an empty stack); and a
\* returned node is labelled with the rule on top of the stack when it was built:
\* the rule just left for a NonTerminal, the current top for any other expression.
C15_RuleStackBalance ==
  /\ (status = "run" /\ Pending) => rules = ret.rules0
  /\ (status \in {"run", "abort"} /\ stack # <<>>) => rules # <<>>
  /\ (status = "run" /\ Pending /\ Succeeded /\ rules # <<>>)
       => ret.val.node.rule = (IF ret.e.t = "NonTerminal" THEN ret.e.s ELSE LastRule)

\* a referenced rule failed through the short circuit of its first attempt and
\* the reference has returned
C15_Witness ==
  /\ Returned("NonTerminal")
  /\ ret.val.kind = "Err"
  /\ ret.e.s \in DOMAIN parser.rules
  /\ parser.rules[ret.e.s].expr.t = "OneOrMore"
  /\ rules = ret.rules0
  /\ stack # <<>>

\* every diagnostic held anywhere in the state: the one just returned, the final
\* one, and those collected so far by the active calls
Diagnostics ==
  {ret.val.err, result.err}
    \cup UNION {SeqRange(stack[k].errors) : k \in 1..Len(stack)}

\* C16: every BadMatch diagnostic that exists during a parse has a non-empty
\* expected set; collect_furthest of a non-empty list of BadMatch diagnostics,
\* as collected by an active call and as extended by the diagnostic just returned
\* to it, is never None; and no Sequence, Choice or repetition fails on the
\* unwrap/expect of that result.
C16_ExpectedNonEmpty ==
  /\ \A d \in Diagnostics : IsBad(d) => d.terminals # {}
  /\ \A k \in 1..Len(stack) :
       (stack[k].errors # <<>> /\ AllBad(stack[k].errors))
         => collect_furthest(stack[k].errors).res = "Some"
  /\ (Running /\ Pending /\ IsBad(ret.val.err) /\ AllBad(Top.errors))
       => collect_furthest(Append(Top.errors, ret.val.err)).res = "Some"
  /\ ~(Aborted("Sequence") \/ Aborted("Choice")
         \/ Aborted("ZeroOrMore") \/ Aborted("OneOrMore"))

\* a repetition has merged the diagnostics of its loop into one that expects
\* several terminals
C16_Witness ==
  /\ Returned("ZeroOrMore") \/ Returned("OneOrMore")
  /\ ret.val.kind = "Recovered"
  /\ IsBad(ret.val.err)
  /\ Cardinality(ret.val.err.terminals) >= 2

\* the step in which a repetition's loop breaks and a Recovered result is built
RepeatBreak ==
  /\ IsRepeat /\ Pending /\ Top.pc = "loop" /\ ret.val.kind = "Err"
  /\ status' = "run" /\ ret'.val.kind = "Recovered"

\* C17: the diagnostic of a repetition's Recovered result has a byte index at
\* least that of the diagnostic of every iteration that returned Recovered, the
\* first mandatory iteration of OneOrMore included, and it is the diagnostic that
\* one e followed by ZeroOrMore(e) in a Sequence reports: the furthest-merge of the
\* first iteration's diagnostic with those of the loop.
C17_EveryIterationCounted ==
  [][RepeatBreak
       => /\ \A k \in 1..Len(Top.errors) : ret'.val.err.idx >= Top.errors[k].idx
          /\ IsBad(Top.dropped)
               => /\ ret'.val.err.idx >= Top.dropped.idx
                  /\ LET all == <<Top.dropped>> \o Top.errors \o <<ret.val.err>>
                         m == collect_furthest(all).err
                     IN /\ ret'.val.err.idx = m.idx
                        /\ ret'.val.err.terminals = m.terminals]_vars

====
